---- MODULE Spec2Model ----
(***************************************************************************)
(* Model of src/src/mt/anomaly/anomaly_detect.py: detect_cell_anomalies    *)
(* reads a baseline and a current density table, outer-joins them on       *)
(* gridID, derives ratio / diff / score / is_anomaly, writes the combined  *)
(* table and prints the ten rows of highest score.                         *)
(*                                                                         *)
(* A float is an IEEE 754 binary64 value, the dtype of the density columns *)
(* and of the three parameters: a tuple <<s, e, hi, lo>> that stands for    *)
(* (-1)^s * (hi * 2^27 + lo) * 2^e, with the 53-bit mantissa split in two  *)
(* words; NaN is also pandas' missing value of a float column.  A data     *)
(* frame is a record [cols, rows]: the set of its column names and the     *)
(* sequence of its rows, each row a function from the column names to      *)
(* values.                                                                 *)
(***************************************************************************)
EXTENDS Integers, Sequences, FiniteSets

VARIABLES baseline_csv, current_csv, ratio_thresh, min_current_density, eps,
          pc, bdf, cdf, df, output_csv, stdout

vars == <<baseline_csv, current_csv, ratio_thresh, min_current_density, eps,
          pc, bdf, cdf, df, output_csv, stdout>>

----------------------------------------------------------------------------
(* Floating-point values: IEEE 754 binary64, round to nearest, ties to     *)
(* even.  A finite value is <<s, e, hi, lo>> with s the sign bit, the       *)
(* mantissa m = hi * W + lo below 2^53 and the value (-1)^s * m * 2^e.  A  *)
(* normal value has m >= 2^52 (hi >= Hidden); a subnormal value and the two *)
(* zeros have e = EMin.  The infinities have e = EInf and NaN has e = ENaN. *)

\* 2^27, the weight of hi
W == 134217728

\* 2^26: hi of the mantissa 2^53
HalfW == 67108864

\* 2^25: hi of the mantissa 2^52, the least normal mantissa
Hidden == 33554432

\* 2^14, the word size of the product in Mul
Limb == 16384

\* the exponent of the least subnormal value, 2^-1074
EMin == -1074

\* finite values have e <= 971: the greatest is (2^53 - 1) * 2^971
EInf == 972

ENaN == 973

NaN == <<0, ENaN, 0, 0>>

Inf(s) == <<s, EInf, 0, 0>>

Zero(s) == <<s, EMin, 0, 0>>

\* 2^k for a normal exponent k, -1022 <= k <= 1023
Pow2(k) == <<0, k - 52, Hidden, 0>>

IsNaN(x) == x[2] = ENaN

IsInf(x) == x[2] = EInf

\* +0.0 or -0.0
IsZero(x) == x[2] = EMin /\ x[3] = 0 /\ x[4] = 0

\* the sign bit of a product or quotient
XorSign(x, y) == IF x[1] = y[1] THEN 0 ELSE 1

\* Arithmetic on two-word naturals u = <<hi, lo>>, lo < W.
Half(u) == <<u[1] \div 2, (u[2] \div 2) + (u[1] % 2) * HalfW>>

Twice(u) == <<2 * u[1] + (2 * u[2]) \div W, (2 * u[2]) % W>>

PairGE(u, v) == u[1] > v[1] \/ (u[1] = v[1] /\ u[2] >= v[2])

Plus(u, v) == <<u[1] + v[1] + (u[2] + v[2]) \div W, (u[2] + v[2]) % W>>

Minus(u, v) ==
    IF u[2] >= v[2] THEN <<u[1] - v[1], u[2] - v[2]>>
    ELSE <<u[1] - v[1] - 1, u[2] - v[2] + W>>

\* The mantissa u plus one unit in the last place.
RoundUp(s, e, u) ==
    LET v == Plus(u, <<0, 1>>)
    IN  IF v[1] = HalfW THEN <<s, e + 1, Hidden, 0>> ELSE <<s, e, v[1], v[2]>>

\* The float nearest to an exact result.  a = <<e, u, r, st>>: the result
\* has magnitude u * 2^e plus a fraction of 2^e of which r is the first bit
\* and st tells whether more bits follow.  The mantissa is shifted into 53
\* bits, or to the exponent EMin when the result is subnormal, and rounded
\* to nearest, a tie to the even mantissa; a result beyond the greatest
\* finite value overflows to an infinity, one below half the least
\* subnormal underflows to a zero of the result's sign.
RECURSIVE Pack(_, _)
Pack(s, a) ==
    LET e == a[1]
        u == a[2]
        r == a[3]
        st == a[4]
    IN  IF u[1] >= HalfW \/ e < EMin
        THEN IF EMin - e > 64 THEN Zero(s)
             ELSE Pack(s, <<e + 1, Half(u), u[2] % 2, st \/ r = 1>>)
        ELSE IF u[1] < Hidden /\ e > EMin /\ u # <<0, 0>>
        THEN Pack(s, <<e - 1, Twice(u), 0, FALSE>>)
        ELSE LET x == IF r = 1 /\ (st \/ u[2] % 2 = 1)
                      THEN RoundUp(s, e, u)
                      ELSE <<s, e, u[1], u[2]>>
             IN  IF x[2] >= EInf THEN Inf(s)
                 ELSE IF x[3] = 0 /\ x[4] = 0 THEN Zero(s)
                 ELSE x

\* The float of an integer n, |n| < 2^27.
Flt(n) ==
    IF n < 0 THEN Pack(1, <<0, <<0, -n>>, 0, FALSE>>)
    ELSE Pack(0, <<0, <<0, n>>, 0, FALSE>>)

\* a = <<e, u>>, a finite value other than 0, scaled so that the mantissa u
\* has 53 bits (e may then be below EMin).
RECURSIVE Normal(_)
Normal(a) ==
    IF a[2][1] >= Hidden THEN a ELSE Normal(<<a[1] - 1, Twice(a[2])>>)

\* Long division.  a = <<n, rem, q>>: n more bits of the quotient of rem by
\* den are appended to q; the result is the quotient and whether a
\* remainder is left.
RECURSIVE DivBits(_, _)
DivBits(a, den) ==
    IF a[1] = 0 THEN <<a[3], a[2] # <<0, 0>>>>
    ELSE LET t == Twice(a[2])
         IN  IF PairGE(t, den)
             THEN DivBits(<<a[1] - 1, Minus(t, den), Plus(Twice(a[3]), <<0, 1>>)>>, den)
             ELSE DivBits(<<a[1] - 1, t, Twice(a[3])>>, den)

\* x / y: NaN when one side is NaN, for inf / inf and for 0 / 0; x / 0 is an
\* infinity and x / inf a zero, with the sign of x times the sign of y (the
\* sign of a zero counts); otherwise the float nearest to the quotient.
Div(x, y) ==
    IF IsNaN(x) \/ IsNaN(y) THEN NaN
    ELSE IF IsInf(x) THEN IF IsInf(y) THEN NaN ELSE Inf(XorSign(x, y))
    ELSE IF IsInf(y) THEN Zero(XorSign(x, y))
    ELSE IF IsZero(y) THEN IF IsZero(x) THEN NaN ELSE Inf(XorSign(x, y))
    ELSE IF IsZero(x) THEN Zero(XorSign(x, y))
    ELSE LET a == Normal(<<x[2], <<x[3], x[4]>>>>)
             b == Normal(<<y[2], <<y[3], y[4]>>>>)
             q == IF PairGE(a[2], b[2])
                  THEN DivBits(<<56, Minus(a[2], b[2]), <<0, 1>>>>, b[2])
                  ELSE DivBits(<<56, a[2], <<0, 0>>>>, b[2])
         IN  Pack(XorSign(x, y), <<a[1] - b[1] - 56, q[1], 0, q[2]>>)

\* x * y: NaN when one side is NaN and for inf * 0; otherwise the float
\* nearest to the product.  The two mantissas are multiplied in words of 14
\* bits; the product keeps its upper 56 bits and whether the lower 50 hold
\* a 1.
Mul(x, y) ==
    IF IsNaN(x) \/ IsNaN(y) THEN NaN
    ELSE IF IsInf(x) \/ IsInf(y)
    THEN IF IsZero(x) \/ IsZero(y) THEN NaN ELSE Inf(XorSign(x, y))
    ELSE IF IsZero(x) \/ IsZero(y) THEN Zero(XorSign(x, y))
    ELSE LET a == Normal(<<x[2], <<x[3], x[4]>>>>)
             b == Normal(<<y[2], <<y[3], y[4]>>>>)
             a0 == a[2][2] % Limb
             a1 == (a[2][2] \div Limb) + (a[2][1] % 2) * 8192
             a2 == (a[2][1] \div 2) % Limb
             a3 == a[2][1] \div 32768
             b0 == b[2][2] % Limb
             b1 == (b[2][2] \div Limb) + (b[2][1] % 2) * 8192
             b2 == (b[2][1] \div 2) % Limb
             b3 == b[2][1] \div 32768
             t0 == a0 * b0
             t1 == a0 * b1 + a1 * b0 + t0 \div Limb
             t2 == a0 * b2 + a1 * b1 + a2 * b0 + t1 \div Limb
             t3 == a0 * b3 + a1 * b2 + a2 * b1 + a3 * b0 + t2 \div Limb
             t4 == a1 * b3 + a2 * b2 + a3 * b1 + t3 \div Limb
             t5 == a2 * b3 + a3 * b2 + t4 \div Limb
             t6 == a3 * b3 + t5 \div Limb
             p3 == t3 % Limb
             p4 == t4 % Limb
             p5 == t5 % Limb
             p6 == t6 % Limb
             p7 == t6 \div Limb
             lo == (p3 \div 256) + p4 * 64 + (p5 % 128) * 1048576
             hi == (p5 \div 128) + p6 * 128 + p7 * 2097152
             st == t0 % Limb # 0 \/ t1 % Limb # 0 \/ t2 % Limb # 0 \/ p3 % 256 # 0
         IN  Pack(XorSign(x, y), <<a[1] + b[1] + 50, <<hi, lo>>, 0, st>>)

Neg(x) == IF IsNaN(x) THEN NaN ELSE <<1 - x[1], x[2], x[3], x[4]>>

\* |x| >= |y| for x and y other than NaN
MagGE(x, y) ==
    x[2] > y[2] \/ (x[2] = y[2] /\ PairGE(<<x[3], x[4]>>, <<y[3], y[4]>>))

\* a = <<k, u, st>>: u shifted right by k bits; st is set when a 1 is lost.
RECURSIVE ShiftRight(_)
ShiftRight(a) ==
    IF a[1] = 0 THEN a
    ELSE ShiftRight(<<a[1] - 1, Half(a[2]), a[3] \/ a[2][2] % 2 = 1>>)

\* x + y: NaN when one side is NaN and for inf + -inf; an infinite side
\* decides the result; 0 + 0 is -0.0 only for two negative zeros and
\* x + -x is +0.0; otherwise the float nearest to the sum.  The mantissa of
\* the side of greater magnitude gets three more bits, the other one is
\* shifted to the same exponent.
Add(x, y) ==
    IF IsNaN(x) \/ IsNaN(y) THEN NaN
    ELSE IF IsInf(x) THEN IF IsInf(y) /\ x[1] # y[1] THEN NaN ELSE x
    ELSE IF IsInf(y) THEN y
    ELSE IF IsZero(x) /\ IsZero(y) THEN Zero(IF x[1] = 1 /\ y[1] = 1 THEN 1 ELSE 0)
    ELSE IF IsZero(x) THEN y
    ELSE IF IsZero(y) THEN x
    ELSE LET b == IF MagGE(x, y) THEN x ELSE y
             s == IF MagGE(x, y) THEN y ELSE x
             bu == Twice(Twice(Twice(<<b[3], b[4]>>)))
             su == Twice(Twice(Twice(<<s[3], s[4]>>)))
             sm == IF b[2] - s[2] > 60 THEN <<0, <<0, 0>>, TRUE>>
                   ELSE ShiftRight(<<b[2] - s[2], su, FALSE>>)
         IN  IF b[1] = s[1]
             THEN Pack(b[1], <<b[2] - 3, Plus(bu, sm[2]), 0, sm[3]>>)
             ELSE LET d == Minus(bu, IF sm[3] THEN Plus(sm[2], <<0, 1>>) ELSE sm[2])
                  IN  IF d = <<0, 0>> /\ ~sm[3] THEN Zero(0)
                      ELSE Pack(b[1], <<b[2] - 3, d, 0, sm[3]>>)

\* x - y
Sub(x, y) == Add(x, Neg(y))

\* x >= y on floats: False as soon as one side is NaN; -0.0 equals +0.0.
GE(x, y) ==
    /\ ~IsNaN(x)
    /\ ~IsNaN(y)
    /\ \/ IsZero(x) /\ IsZero(y)
       \/ x[1] = 0 /\ y[1] = 1
       \/ x[1] = 0 /\ y[1] = 0 /\ MagGE(x, y)
       \/ x[1] = 1 /\ y[1] = 1 /\ MagGE(y, x)

\* x < y on floats: False as soon as one side is NaN.
LT(x, y) == ~IsNaN(x) /\ ~IsNaN(y) /\ ~GE(x, y)

\* The float a decimal text of value n / d is read as: the float nearest to
\* n / d.
Dec(n, d) == Div(Flt(n), Flt(d))

----------------------------------------------------------------------------
(* Column names and program constants.                                     *)

\* line 26: cols
cols == {"gridID", "density", "lon_centroid", "lat_centroid"}

\* lines 50-60: out_cols
out_cols == <<"gridID", "lon_centroid", "lat_centroid", "baseline", "current",
              "ratio", "diff", "score", "is_anomaly">>

OutColSet == {out_cols[i] : i \in DOMAIN out_cols}

\* line 64: head(10)
TopN == 10

\* lines 9-11 and 76-78: the defaults of the three parameters
DefaultRatioThresh == Flt(5)
DefaultMinCurrentDensity == Flt(2)
DefaultEps == Dec(1, 1000)

EmptyDF == [cols |-> {}, rows |-> <<>>]

----------------------------------------------------------------------------
(* Data-frame operations.                                                  *)

\* pd.read_csv: raises when the path cannot be read or parsed.
ReadCsv(file) ==
    IF file.readable
    THEN [ok |-> TRUE, df |-> [cols |-> file.cols, rows |-> file.rows]]
    ELSE [ok |-> FALSE, df |-> EmptyDF]

\* t[[c for c in cols if c in t.columns]].copy()
KeepExpected(t) ==
    LET keep == t.cols \cap cols
    IN  [cols |-> keep,
         rows |-> [i \in DOMAIN t.rows |-> [c \in keep |-> t.rows[i][c]]]]

\* t.rename(columns={old: new}): a no-op when t has no column old.
Rename(t, old, new) ==
    IF old \notin t.cols THEN t
    ELSE LET names == (t.cols \ {old}) \cup {new}
         IN  [cols |-> names,
              rows |-> [i \in DOMAIN t.rows |->
                          [c \in names |-> IF c = new THEN t.rows[i][old]
                                           ELSE t.rows[i][c]]]]

\* A fill that leaves the missing values in.
FillNaSkipped(v, fill) == v

\* Series.fillna(fill): a missing value (NaN) is replaced, others are kept.
FillNa(v, fill) == IF IsNaN(v) THEN fill ELSE v

\* df[name] = values: adds or overwrites one column, values[i] for row i.
WithColumn(t, name, values) ==
    LET names == t.cols \cup {name}
    IN  [cols |-> names,
         rows |-> [i \in DOMAIN t.rows |->
                     [c \in names |-> IF c = name THEN values[i]
                                      ELSE t.rows[i][c]]]]

\* The name a non-key column of the left / right frame gets in the merge:
\* suffixes=("_b", "_c") apply to the names both frames have.
LeftName(c, overlap) ==
    IF c \notin overlap THEN c
    ELSE IF c = "lon_centroid" THEN "lon_centroid_b" ELSE "lat_centroid_b"

RightName(c, overlap) ==
    IF c \notin overlap THEN c
    ELSE IF c = "lon_centroid" THEN "lon_centroid_c" ELSE "lat_centroid_c"

MergedCols(l, r) ==
    LET overlap == (l.cols \cap r.cols) \ {"gridID"}
    IN  {"gridID"} \cup {LeftName(c, overlap) : c \in l.cols \ {"gridID"}}
                   \cup {RightName(c, overlap) : c \in r.cols \ {"gridID"}}

KeysOf(t) == {t.rows[i]["gridID"] : i \in DOMAIN t.rows}

RowsWithKey(t, k) == SelectSeq(t.rows, LAMBDA row : row["gridID"] = k)

\* One row of the join for key k; hasL / hasR tell whether the left / right
\* frame contributes a row (the other side's columns are then missing, NaN).
MergedRow(l, r, k, hasL, lrow, hasR, rrow) ==
    LET overlap == (l.cols \cap r.cols) \ {"gridID"}
    IN  [c \in MergedCols(l, r) |->
            IF c = "gridID" THEN k
            ELSE IF \E x \in l.cols \ {"gridID"} : LeftName(x, overlap) = c
                 THEN LET x == CHOOSE x \in l.cols \ {"gridID"} :
                                   LeftName(x, overlap) = c
                      IN  IF hasL THEN lrow[x] ELSE NaN
                 ELSE LET y == CHOOSE y \in r.cols \ {"gridID"} :
                                   RightName(y, overlap) = c
                      IN  IF hasR THEN rrow[y] ELSE NaN]

\* The rows of the join for one key: every pairing of a left row with a right
\* row of that key, or the rows of the one side that has the key.
RowsForKey(l, r, k) ==
    LET lr == RowsWithKey(l, k)
        rr == RowsWithKey(r, k)
        nl == Len(lr)
        nr == Len(rr)
    IN  IF nl > 0 /\ nr > 0
        THEN [n \in 1..(nl * nr) |->
                MergedRow(l, r, k, TRUE, lr[((n - 1) \div nr) + 1],
                                   TRUE, rr[((n - 1) % nr) + 1])]
        ELSE IF nl > 0
        THEN [n \in 1..nl |-> MergedRow(l, r, k, TRUE, lr[n], FALSE, lr[n])]
        ELSE [n \in 1..nr |-> MergedRow(l, r, k, FALSE, rr[n], TRUE, rr[n])]

Min(S) == CHOOSE x \in S : \A y \in S : x <= y

RECURSIVE JoinKeys(_, _, _)
JoinKeys(l, r, keys) ==
    IF keys = {} THEN <<>>
    ELSE LET k == Min(keys)
         IN  RowsForKey(l, r, k) \o JoinKeys(l, r, keys \ {k})

\* A mis-merge that treats a missing key column as a column of missing keys.
MergeOuterNoKeyCheck(l, r) ==
    LET lk == IF "gridID" \in l.cols THEN l
              ELSE WithColumn(l, "gridID", [i \in DOMAIN l.rows |-> 0])
        rk == IF "gridID" \in r.cols THEN r
              ELSE WithColumn(r, "gridID", [i \in DOMAIN r.rows |-> 0])
    IN  [ok |-> TRUE,
         df |-> [cols |-> MergedCols(lk, rk),
                 rows |-> JoinKeys(lk, rk, KeysOf(lk) \cup KeysOf(rk))]]

\* line 32: pd.merge(l, r, on="gridID", how="outer", suffixes=("_b", "_c"));
\* raises KeyError when either frame lacks the key column.  The keys of the
\* result are in ascending order.
MergeOuter(l, r) ==
    IF "gridID" \notin l.cols \/ "gridID" \notin r.cols
    THEN [ok |-> FALSE, df |-> EmptyDF]
    ELSE [ok |-> TRUE,
          df |-> [cols |-> MergedCols(l, r),
                  rows |-> JoinKeys(l, r, KeysOf(l) \cup KeysOf(r))]]

----------------------------------------------------------------------------
(* The steps of detect_cell_anomalies.                                     *)

\* A mis-resolution that prefers the baseline centroid.
PreferBaseline(c, b) == FillNa(b, c)

\* lines 35-36: the current centroid when it is there, else the baseline's.
PreferCurrent(c, b) == FillNa(c, b)

\* lines 34-39.  After the merge "lon_centroid_c" and "lon_centroid_b" exist
\* together (both inputs have lon_centroid) or not at all, so the elif branch
\* never assigns; a centroid column only one input has keeps its plain name.
\* Line 36 raises KeyError when "lat_centroid_c" is not a column.
ResolveCentroids(t) ==
    IF "lon_centroid_c" \in t.cols
    THEN LET t1 == WithColumn(t, "lon_centroid",
                      [i \in DOMAIN t.rows |->
                          PreferCurrent(t.rows[i]["lon_centroid_c"],
                                        t.rows[i]["lon_centroid_b"])])
         IN  IF "lat_centroid_c" \notin t.cols
             THEN [ok |-> FALSE, df |-> t1]
             ELSE [ok |-> TRUE,
                   df |-> WithColumn(t1, "lat_centroid",
                             [i \in DOMAIN t1.rows |->
                                 PreferCurrent(t1.rows[i]["lat_centroid_c"],
                                               t1.rows[i]["lat_centroid_b"])])]
    ELSE IF "lon_centroid_b" \in t.cols
    THEN LET t1 == WithColumn(t, "lon_centroid",
                      [i \in DOMAIN t.rows |-> t.rows[i]["lon_centroid_b"]])
         IN  IF "lat_centroid_b" \notin t.cols
             THEN [ok |-> FALSE, df |-> t1]
             ELSE [ok |-> TRUE,
                   df |-> WithColumn(t1, "lat_centroid",
                             [i \in DOMAIN t1.rows |->
                                 t1.rows[i]["lat_centroid_b"]])]
    ELSE [ok |-> TRUE, df |-> t]

\* lines 41-42: df[c] = df[c].fillna(0.0) for c = baseline, then current;
\* df[c] raises KeyError when the input had no density column.
FillDensities(t) ==
    IF "baseline" \notin t.cols THEN [ok |-> FALSE, df |-> t]
    ELSE LET t1 == WithColumn(t, "baseline",
                      [i \in DOMAIN t.rows |->
                          FillNa(t.rows[i]["baseline"], Zero(0))])
         IN  IF "current" \notin t1.cols THEN [ok |-> FALSE, df |-> t1]
             ELSE [ok |-> TRUE,
                   df |-> WithColumn(t1, "current",
                             [i \in DOMAIN t1.rows |->
                                 FillNa(t1.rows[i]["current"], Zero(0))])]

\* A clip that leaves the value as it is.
ClipNone(x, lower) == x

\* line 44: Series.clip(lower=eps)
Clip(x, lower) == IF LT(x, lower) THEN lower ELSE x

\* A ratio taken the wrong way round.
RatioInverted(current, baseline_eps) == Div(baseline_eps, current)

\* line 45
Ratio(current, baseline_eps) == Div(current, baseline_eps)

\* A difference taken the wrong way round.
DiffReversed(current, baseline) == Sub(baseline, current)

\* line 46
Diff(current, baseline) == Sub(current, baseline)

\* line 47
Score(ratio, diff) == Mul(ratio, diff)

\* A flag that asks for one of the two conditions only.
IsAnomalyEither(ratio, current, rt, mcd) == GE(ratio, rt) \/ GE(current, mcd)

\* line 48
IsAnomaly(ratio, current, rt, mcd) == GE(ratio, rt) /\ GE(current, mcd)

\* lines 44-48
Derive(t, rt, mcd, e) ==
    LET baseline_eps == [i \in DOMAIN t.rows |-> Clip(t.rows[i]["baseline"], e)]
        t1 == WithColumn(t, "ratio",
                 [i \in DOMAIN t.rows |->
                     Ratio(t.rows[i]["current"], baseline_eps[i])])
        t2 == WithColumn(t1, "diff",
                 [i \in DOMAIN t1.rows |->
                     Diff(t1.rows[i]["current"], t1.rows[i]["baseline"])])
        t3 == WithColumn(t2, "score",
                 [i \in DOMAIN t2.rows |->
                     Score(t2.rows[i]["ratio"], t2.rows[i]["diff"])])
    IN  WithColumn(t3, "is_anomaly",
           [i \in DOMAIN t3.rows |->
               IsAnomaly(t3.rows[i]["ratio"], t3.rows[i]["current"], rt, mcd)])

\* line 61 and line 64: df[out_cols] raises KeyError when a column is missing.
SelectOut(t) ==
    IF ~(OutColSet \subseteq t.cols) THEN [ok |-> FALSE, df |-> EmptyDF]
    ELSE [ok |-> TRUE,
          df |-> [cols |-> OutColSet,
                  rows |-> [i \in DOMAIN t.rows |->
                              [c \in OutColSet |-> t.rows[i][c]]]]]

\* A sort in ascending order: a row of least score comes first, NaN last.
Lowest(t, S) ==
    LET nums == {i \in S : ~IsNaN(t.rows[i]["score"])}
    IN  IF nums = {} THEN S
        ELSE {i \in nums :
                \A j \in nums : GE(t.rows[j]["score"], t.rows[i]["score"])}

\* The rows that may come first among the rows S in a descending sort: a row
\* of greatest score, NaN scores last.
Highest(t, S) ==
    LET nums == {i \in S : ~IsNaN(t.rows[i]["score"])}
    IN  IF nums = {} THEN S
        ELSE {i \in nums :
                \A j \in nums : GE(t.rows[i]["score"], t.rows[j]["score"])}

\* line 64: sort_values("score", ascending=False).head(n): the index orders the
\* sort may produce, cut to n rows.  The default sort is not stable, so rows
\* of equal score may come in any order.
RECURSIVE TopOrders(_, _, _)
TopOrders(t, S, n) ==
    IF n = 0 \/ S = {} THEN {<<>>}
    ELSE UNION {{<<i>> \o rest : rest \in TopOrders(t, S \ {i}, n - 1)} :
                   i \in Highest(t, S)}

\* line 66: int(df["is_anomaly"].sum())
RECURSIVE CountAnomalies(_, _)
CountAnomalies(rows, n) ==
    IF n = 0 THEN 0
    ELSE (IF rows[n]["is_anomaly"] THEN 1 ELSE 0) + CountAnomalies(rows, n - 1)

----------------------------------------------------------------------------
(* Inputs.                                                                 *)

\* Bounds of the enumerated inputs.
MaxGrid == 2      \* gridIDs are 1..MaxGrid in the small tables
MaxRows == 2      \* rows per small table
BigRows == 12     \* rows of the current table in the large inputs
MaxBase == 2      \* rows of the baseline table in the large inputs
MaxShift == 1     \* offset of the current gridIDs in the large inputs

Unreadable == [readable |-> FALSE, cols |-> {}, rows |-> <<>>]

File(C, rows) == [readable |-> TRUE, cols |-> C, rows |-> rows]

\* One row of an input file with columns C.
InputRow(C, g, dens, lon, lat) ==
    [c \in C |-> IF c = "gridID" THEN g
                 ELSE IF c = "density" THEN dens
                 ELSE IF c = "lon_centroid" THEN lon
                 ELSE IF c = "lat_centroid" THEN lat
                 ELSE Zero(0)]

\* The gridID columns of the small tables: every sequence of at most MaxRows
\* gridIDs, repeated gridIDs included.
Shapes == UNION {[1..n -> 1..MaxGrid] : n \in 0..MaxRows}

\* The gridID columns of the tables of at most one row.
ShortShapes == {shape \in Shapes : Len(shape) <= 1}

\* Column sets of an input file: every set with gridID, and the full set
\* without it.
ColumnSets == {C \in SUBSET cols : "gridID" \in C} \cup {cols \ {"gridID"}}

\* A table whose densities and centroids follow the row number, the first
\* row having density 0.
TableFile(side, C, shape) ==
    File(C, [i \in DOMAIN shape |->
               InputRow(C, shape[i],
                        IF side = "b" THEN Flt(i - 1) ELSE Flt(4 * (i - 1)),
                        IF side = "b" THEN Flt(10 + i) ELSE Flt(30 + i),
                        IF side = "b" THEN Flt(20 + i) ELSE Flt(40 + i))])

\* The parameters of the inputs that vary the columns or the gridIDs.
StructureParams == {<<DefaultRatioThresh, DefaultMinCurrentDensity, DefaultEps>>,
                    <<Dec(3, 2), Zero(0), Zero(0)>>}

\* Inputs that vary the columns: unreadable files and tables of at most one
\* row.
ColumnFiles(side) ==
    {Unreadable} \cup
    {TableFile(side, C, shape) : C \in ColumnSets, shape \in ShortShapes}

InitColumns ==
    /\ baseline_csv \in ColumnFiles("b")
    /\ current_csv \in ColumnFiles("c")
    /\ \E p \in StructureParams :
          /\ ratio_thresh = p[1]
          /\ min_current_density = p[2]
          /\ eps = p[3]

\* Inputs that vary the gridIDs: tables with all the expected columns.
StructureFiles(side) == {TableFile(side, cols, shape) : shape \in Shapes}

InitStructure ==
    /\ baseline_csv \in StructureFiles("b")
    /\ current_csv \in StructureFiles("c")
    /\ \E p \in StructureParams :
          /\ ratio_thresh = p[1]
          /\ min_current_density = p[2]
          /\ eps = p[3]

\* Inputs that vary the densities and the parameters: at most one row per
\* file, all expected columns and one more.  The densities are 0, -0.0, 1,
\* 1.5, 6 and 10, then 0.1 and 0.3, which no float holds exactly, 2^-600
\* and 2^-599, whose products underflow, and 2^600, whose products overflow.
DensityValues == {Zero(0), Zero(1), Flt(1), Dec(3, 2), Flt(6), Flt(10),
                  Dec(1, 10), Dec(3, 10), Pow2(-600), Pow2(-599), Pow2(600)}
RatioThreshValues == {Zero(0), Dec(1, 2), Flt(1), Dec(3, 2), Flt(3),
                      DefaultRatioThresh}
MinCurrentValues == {Zero(0), DefaultMinCurrentDensity}
EpsValues == {Flt(-1), Zero(0), DefaultEps, Flt(2)}

ValueFiles(side) ==
    LET C == cols \cup {"mmsi"}
    IN  {File(C, <<>>)} \cup
        {File(C, <<InputRow(C, g, dens,
                            IF side = "b" THEN Flt(11) ELSE Flt(31),
                            IF side = "b" THEN Flt(21) ELSE Flt(41))>>) :
            g \in IF side = "b" THEN {1} ELSE {1, 2}, dens \in DensityValues}

InitValues ==
    /\ baseline_csv \in ValueFiles("b")
    /\ current_csv \in ValueFiles("c")
    /\ ratio_thresh \in RatioThreshValues
    /\ min_current_density \in MinCurrentValues
    /\ eps \in EpsValues

\* Inputs that vary the centroids: at most one row per file, centroid columns
\* present or not, centroid values present or missing.
CentroidFiles(side) ==
    UNION {{File(C, <<>>)} \cup
           {File(C, <<InputRow(C, g,
                               IF side = "b" THEN Flt(1) ELSE Flt(10),
                               lon, lat)>>) :
               g \in 1..MaxGrid,
               lon \in IF "lon_centroid" \in C
                       THEN {NaN, IF side = "b" THEN Flt(11) ELSE Flt(31)}
                       ELSE {NaN},
               lat \in IF "lat_centroid" \in C
                       THEN {NaN, IF side = "b" THEN Flt(21) ELSE Flt(41)}
                       ELSE {NaN}} :
           C \in {D \in SUBSET cols : {"gridID", "density"} \subseteq D}}

InitCentroids ==
    /\ baseline_csv \in CentroidFiles("b")
    /\ current_csv \in CentroidFiles("c")
    /\ ratio_thresh = DefaultRatioThresh
    /\ min_current_density = DefaultMinCurrentDensity
    /\ eps = DefaultEps

\* Large inputs: more than TopN cells, distinct gridIDs within a file.
BigFile(side, n, shift, seed) ==
    File(cols, [i \in 1..n |->
                  InputRow(cols, i + shift,
                           IF side = "b" THEN Flt(i)
                           ELSE Flt(1 + ((i * seed) % 7)),
                           IF side = "b" THEN Flt(10 + i) ELSE Flt(30 + i),
                           IF side = "b" THEN Flt(20 + i) ELSE Flt(40 + i))])

InitBig ==
    /\ baseline_csv \in {BigFile("b", n, 0, 1) : n \in 0..MaxBase}
    /\ current_csv \in {BigFile("c", n, shift, seed) :
                           n \in (TopN - 1)..BigRows, shift \in 0..MaxShift,
                           seed \in {1, 3}}
    /\ ratio_thresh = DefaultRatioThresh
    /\ min_current_density = DefaultMinCurrentDensity
    /\ eps = DefaultEps

----------------------------------------------------------------------------
(* The state machine: pc is the statement detect_cell_anomalies is at.     *)

NoOutput == [written |-> FALSE, header |-> <<>>, rows |-> <<>>]

NoSummary == [printed |-> FALSE, total |-> 0, top |-> <<>>]

Init ==
    /\ InitColumns \/ InitStructure \/ InitValues \/ InitCentroids \/ InitBig
    /\ pc = "read_baseline"
    /\ bdf = EmptyDF
    /\ cdf = EmptyDF
    /\ df = EmptyDF
    /\ output_csv = NoOutput
    /\ stdout = NoSummary

Inputs == <<baseline_csv, current_csv, ratio_thresh, min_current_density, eps>>

\* line 22
ReadBaseline ==
    /\ pc = "read_baseline"
    /\ LET r == ReadCsv(baseline_csv)
       IN  /\ bdf' = r.df
           /\ pc' = IF r.ok THEN "read_current" ELSE "failed"
    /\ UNCHANGED <<Inputs, cdf, df, output_csv, stdout>>

\* line 23
ReadCurrent ==
    /\ pc = "read_current"
    /\ LET r == ReadCsv(current_csv)
       IN  /\ cdf' = r.df
           /\ pc' = IF r.ok THEN "select" ELSE "failed"
    /\ UNCHANGED <<Inputs, bdf, df, output_csv, stdout>>

\* lines 26-30
SelectColumns ==
    /\ pc = "select"
    /\ bdf' = Rename(KeepExpected(bdf), "density", "baseline")
    /\ cdf' = Rename(KeepExpected(cdf), "density", "current")
    /\ pc' = "merge"
    /\ UNCHANGED <<Inputs, df, output_csv, stdout>>

\* line 32
Merge ==
    /\ pc = "merge"
    /\ LET r == MergeOuter(bdf, cdf)
       IN  /\ df' = r.df
           /\ pc' = IF r.ok THEN "centroids" ELSE "failed"
    /\ UNCHANGED <<Inputs, bdf, cdf, output_csv, stdout>>

\* lines 34-39
Centroids ==
    /\ pc = "centroids"
    /\ LET r == ResolveCentroids(df)
       IN  /\ df' = r.df
           /\ pc' = IF r.ok THEN "fillna" ELSE "failed"
    /\ UNCHANGED <<Inputs, bdf, cdf, output_csv, stdout>>

\* lines 41-42
FillMissing ==
    /\ pc = "fillna"
    /\ LET r == FillDensities(df)
       IN  /\ df' = r.df
           /\ pc' = IF r.ok THEN "derive" ELSE "failed"
    /\ UNCHANGED <<Inputs, bdf, cdf, output_csv, stdout>>

\* lines 44-48
Compute ==
    /\ pc = "derive"
    /\ df' = Derive(df, ratio_thresh, min_current_density, eps)
    /\ pc' = "write"
    /\ UNCHANGED <<Inputs, bdf, cdf, output_csv, stdout>>

\* lines 50-61: df[out_cols].to_csv(output_csv, index=False)
WriteOutput ==
    /\ pc = "write"
    /\ LET r == SelectOut(df)
       IN  /\ output_csv' = IF r.ok
                            THEN [written |-> TRUE, header |-> out_cols,
                                  rows |-> r.df.rows]
                            ELSE output_csv
           /\ pc' = IF r.ok THEN "summary" ELSE "failed"
    /\ UNCHANGED <<Inputs, bdf, cdf, df, stdout>>

\* lines 64-68
Summary ==
    /\ pc = "summary"
    /\ \E order \in TopOrders(df, DOMAIN df.rows, TopN) :
          stdout' = [printed |-> TRUE,
                     total |-> CountAnomalies(df.rows, Len(df.rows)),
                     top |-> [i \in DOMAIN order |->
                                [c \in OutColSet |-> df.rows[order[i]][c]]]]
    /\ pc' = "done"
    /\ UNCHANGED <<Inputs, bdf, cdf, df, output_csv>>

Next ==
    \/ ReadBaseline
    \/ ReadCurrent
    \/ SelectColumns
    \/ Merge
    \/ Centroids
    \/ FillMissing
    \/ Compute
    \/ WriteOutput
    \/ Summary

Spec == Init /\ [][Next]_vars

----------------------------------------------------------------------------
(* Vocabulary of the properties.                                           *)

Written == output_csv.written

OutRows == output_csv.rows

\* The gridIDs an input file lists.
FileKeys(file) ==
    IF "gridID" \in file.cols THEN KeysOf(file) ELSE {}

\* The rows an input file has for gridID g.
FileRows(file, g) == {file.rows[i] : i \in {j \in DOMAIN file.rows :
                                               file.rows[j]["gridID"] = g}}

\* A value of an input row; missing when the file has no such column.
Field(file, row, c) == IF c \in file.cols THEN row[c] ELSE NaN

OnlyInBaseline == FileKeys(baseline_csv) \ FileKeys(current_csv)

OnlyInCurrent == FileKeys(current_csv) \ FileKeys(baseline_csv)

InBoth == FileKeys(baseline_csv) \cap FileKeys(current_csv)

RowsOf(g) == {i \in DOMAIN OutRows : OutRows[i]["gridID"] = g}

Occurrences(seq, v) == Cardinality({i \in DOMAIN seq : seq[i] = v})

\* x > 0
IsPos(x) == LT(Zero(0), x)

\* The floats of the worked examples.
One == Flt(1)

Three == Flt(3)

Ten == Flt(10)

OneAndHalf == Dec(3, 2)

Tenth == Dec(1, 10)

ThreeTenths == Dec(3, 10)

FifteenHundred == Flt(1500)

\* 2.9999999999999996, the float next below 3
BelowThree == <<0, -51, 50331647, 134217727>>

----------------------------------------------------------------------------
(* C1: the written table has exactly one row for each gridID of baseline   *)
(* or current, duplicates in an input included, and as many rows as there  *)
(* are distinct gridIDs in the two inputs.                                 *)
C1_OneRowPerGridID ==
    Written =>
        LET keys == FileKeys(baseline_csv) \cup FileKeys(current_csv)
        IN  /\ \A g \in keys : Cardinality(RowsOf(g)) = 1
            /\ Len(OutRows) = Cardinality(keys)

(* C2: in every written row is_anomaly is true exactly when both           *)
(* ratio >= ratio_thresh and current >= min_current_density hold.          *)
C2_FlagIffBothConditions ==
    Written =>
        \A i \in DOMAIN OutRows :
            OutRows[i]["is_anomaly"] =
                (/\ GE(OutRows[i]["ratio"], ratio_thresh)
                 /\ GE(OutRows[i]["current"], min_current_density))

\* A written row that meets exactly one of the two conditions and is not
\* flagged, and a written row that meets both and is flagged.
C2_Witness ==
    /\ Written
    /\ \E i \in DOMAIN OutRows :
          /\ GE(OutRows[i]["ratio"], ratio_thresh)
          /\ ~GE(OutRows[i]["current"], min_current_density)
          /\ ~OutRows[i]["is_anomaly"]
    /\ \E i \in DOMAIN OutRows : OutRows[i]["is_anomaly"]

(* C3: in every written row ratio is current divided by max(baseline, eps),*)
(* the division being the float division: with baseline 0 it is            *)
(* current / eps; with baseline 1, current 10 and eps 1e-3 the ratio is    *)
(* 10.0, with baseline filled to 0, current 1.5 and eps 1e-3 it is 1500.0, *)
(* and with baseline 0.1 and current 0.3 it is 2.9999999999999996, the     *)
(* float next below 3.                                                     *)
C3_RatioIsCurrentOverFlooredBaseline ==
    Written =>
        \A i \in DOMAIN OutRows :
            LET row == OutRows[i]
                floor == IF GE(row["baseline"], eps) THEN row["baseline"]
                         ELSE eps
            IN  /\ row["ratio"] = Div(row["current"], floor)
                /\ (IsZero(row["baseline"]) /\ IsPos(eps))
                      => row["ratio"] = Div(row["current"], eps)
                /\ (row["baseline"] = One /\ row["current"] = Ten
                        /\ eps = DefaultEps) => row["ratio"] = Ten
                /\ (row["baseline"] = Zero(0) /\ row["current"] = OneAndHalf
                        /\ eps = DefaultEps) => row["ratio"] = FifteenHundred
                /\ (row["baseline"] = Tenth /\ row["current"] = ThreeTenths
                        /\ LT(eps, Tenth))
                      => /\ row["ratio"] = BelowThree
                         /\ LT(row["ratio"], Three)

\* A written row of a cell absent from baseline, with current 1.5 and the
\* default eps: its ratio is 1500.
C3_Witness ==
    /\ Written
    /\ eps = DefaultEps
    /\ \E g \in OnlyInCurrent : \E i \in RowsOf(g) :
          /\ OutRows[i]["current"] = OneAndHalf
          /\ OutRows[i]["ratio"] = FifteenHundred

(* C4: a gridID present in exactly one input has, in each of its written    *)
(* rows, the absent side's density 0.0, the present side's density as the  *)
(* input gives it, and the centroid of the input row it comes from.        *)
C4_OneSidedCells ==
    Written =>
        /\ \A g \in OnlyInCurrent :
              /\ RowsOf(g) # {}
              /\ \A i \in RowsOf(g) :
                    /\ OutRows[i]["baseline"] = Zero(0)
                    /\ \E r \in FileRows(current_csv, g) :
                          /\ OutRows[i]["current"] = Field(current_csv, r, "density")
                          /\ OutRows[i]["lon_centroid"] =
                                Field(current_csv, r, "lon_centroid")
                          /\ OutRows[i]["lat_centroid"] =
                                Field(current_csv, r, "lat_centroid")
        /\ \A g \in OnlyInBaseline :
              /\ RowsOf(g) # {}
              /\ \A i \in RowsOf(g) :
                    /\ OutRows[i]["current"] = Zero(0)
                    /\ \E r \in FileRows(baseline_csv, g) :
                          /\ OutRows[i]["baseline"] = Field(baseline_csv, r, "density")
                          /\ OutRows[i]["lon_centroid"] =
                                Field(baseline_csv, r, "lon_centroid")
                          /\ OutRows[i]["lat_centroid"] =
                                Field(baseline_csv, r, "lat_centroid")

\* A written table with a cell only baseline has and a cell only current has,
\* both with a centroid.
C4_Witness ==
    /\ Written
    /\ \E g \in OnlyInBaseline : \E i \in RowsOf(g) :
          /\ ~IsNaN(OutRows[i]["lon_centroid"])
          /\ IsPos(OutRows[i]["baseline"])
    /\ \E g \in OnlyInCurrent : \E i \in RowsOf(g) :
          /\ ~IsNaN(OutRows[i]["lat_centroid"])
          /\ IsPos(OutRows[i]["current"])

(* C5: inputs that both have gridID but lack density, lon_centroid or      *)
(* lat_centroid do not make the run fail.                                  *)
C5_MissingOptionalColumnsTolerated ==
    (/\ baseline_csv.readable
     /\ current_csv.readable
     /\ "gridID" \in baseline_csv.cols
     /\ "gridID" \in current_csv.cols) => pc # "failed"

(* C6: a run whose input cannot be read, or whose inputs both lack gridID, *)
(* never gets past the join, keeps stepping until it has failed and writes *)
(* nothing; no failed run has written, and the table is written only once  *)
(* the derived columns exist.                                              *)
FatalInput ==
    \/ ~baseline_csv.readable
    \/ ~current_csv.readable
    \/ ("gridID" \notin baseline_csv.cols /\ "gridID" \notin current_csv.cols)

C6_NoOutputOnFailure ==
    /\ FatalInput =>
          /\ ~Written
          /\ pc \in {"read_baseline", "read_current", "select", "merge", "failed"}
          /\ pc # "failed" => ENABLED Next
    /\ pc = "failed" => ~Written
    /\ Written =>
          /\ pc \in {"summary", "done"}
          /\ {"ratio", "diff", "score", "is_anomaly"} \subseteq df.cols
          /\ Len(OutRows) = Len(df.rows)

\* A run that failed at the join because neither input has gridID.
C6_Witness ==
    /\ pc = "failed"
    /\ baseline_csv.readable
    /\ current_csv.readable
    /\ "gridID" \notin baseline_csv.cols
    /\ "gridID" \notin current_csv.cols
    /\ Len(baseline_csv.rows) > 0
    /\ ~Written

(* C7: the printed top list holds min(10, row count) written rows, in      *)
(* descending order of score, and no written row left out of it has a      *)
(* greater score than a row in it.                                         *)
C7_TopTenByScore ==
    stdout.printed =>
        LET top == stdout.top
            n == Len(OutRows)
        IN  /\ Len(top) = IF n < TopN THEN n ELSE TopN
            /\ \A i \in DOMAIN top :
                  Occurrences(top, top[i]) <= Occurrences(OutRows, top[i])
            /\ \A i, j \in DOMAIN top :
                  i < j => /\ ~LT(top[i]["score"], top[j]["score"])
                           /\ IsNaN(top[i]["score"]) => IsNaN(top[j]["score"])
            /\ \A k \in DOMAIN OutRows :
                  Occurrences(top, OutRows[k]) < Occurrences(OutRows, OutRows[k])
                      => \A i \in DOMAIN top :
                            ~LT(top[i]["score"], OutRows[k]["score"])

\* A printed list of ten rows out of more than ten, not all of one score.
C7_Witness ==
    /\ stdout.printed
    /\ Len(OutRows) > TopN
    /\ Len(stdout.top) = TopN
    /\ LT(stdout.top[TopN]["score"], stdout.top[1]["score"])

(* C8 as stated: with eps > 0, every written row with current < baseline   *)
(* has a score strictly below 0.                                           *)
C8_ScoreNegativeBelowBaseline ==
    (Written /\ IsPos(eps)) =>
        \A i \in DOMAIN OutRows :
            LT(OutRows[i]["current"], OutRows[i]["baseline"])
                => LT(OutRows[i]["score"], Zero(0))

\* A ratio and a difference of at least this magnitude, 2^-511, have a
\* product that does not underflow.
NoUnderflow == Pow2(-511)

(* C8 amended: with eps > 0, a written row with current < baseline has a   *)
(* score that is never positive: it is a zero when current = 0, and it is  *)
(* strictly below 0 when ratio and |diff| are both at least 2^-511, so     *)
(* that their product does not underflow.                                  *)
C8_ScoreNotPositiveBelowBaseline ==
    (Written /\ IsPos(eps)) =>
        \A i \in DOMAIN OutRows :
            LT(OutRows[i]["current"], OutRows[i]["baseline"]) =>
                /\ GE(Zero(0), OutRows[i]["score"])
                /\ IsZero(OutRows[i]["current"]) => IsZero(OutRows[i]["score"])
                /\ (/\ GE(OutRows[i]["ratio"], NoUnderflow)
                    /\ GE(Neg(OutRows[i]["diff"]), NoUnderflow))
                      => LT(OutRows[i]["score"], Zero(0))

\* A written row with 0 < current < baseline, a ratio and a difference that
\* do not underflow and a negative score.
C8_Witness ==
    /\ Written
    /\ IsPos(eps)
    /\ \E i \in DOMAIN OutRows :
          /\ IsPos(OutRows[i]["current"])
          /\ LT(OutRows[i]["current"], OutRows[i]["baseline"])
          /\ GE(OutRows[i]["ratio"], NoUnderflow)
          /\ GE(Neg(OutRows[i]["diff"]), NoUnderflow)
          /\ LT(OutRows[i]["score"], Zero(0))

(* C9 as stated: every written row flagged is_anomaly has current strictly *)
(* greater than baseline, whatever ratio_thresh, min_current_density and   *)
(* eps are; a cell only baseline has is never flagged.                     *)
C9_FlaggedExceedsBaseline ==
    Written =>
        \A i \in DOMAIN OutRows :
            OutRows[i]["is_anomaly"]
                => /\ LT(OutRows[i]["baseline"], OutRows[i]["current"])
                   /\ OutRows[i]["gridID"] \notin OnlyInBaseline

(* C9 amended: when ratio_thresh > 1, every written row flagged is_anomaly *)
(* has current strictly greater than baseline, whatever                    *)
(* min_current_density and eps are; a cell only baseline has is then never *)
(* flagged.                                                                *)
C9_FlaggedExceedsBaselineAboveOne ==
    (Written /\ LT(One, ratio_thresh)) =>
        \A i \in DOMAIN OutRows :
            OutRows[i]["is_anomaly"]
                => /\ LT(OutRows[i]["baseline"], OutRows[i]["current"])
                   /\ OutRows[i]["gridID"] \notin OnlyInBaseline

\* A flagged row under a ratio_thresh above 1 and an eps that floors
\* nothing, next to an unflagged row of a cell only baseline has.
C9_Witness ==
    /\ Written
    /\ LT(One, ratio_thresh)
    /\ ~IsPos(eps)
    /\ \E i \in DOMAIN OutRows :
          /\ OutRows[i]["is_anomaly"]
          /\ IsPos(OutRows[i]["baseline"])
    /\ \E g \in OnlyInBaseline : \E i \in RowsOf(g) : ~OutRows[i]["is_anomaly"]

(* C10: for a gridID both inputs have, each written coordinate of the      *)
(* centroid is the current input's when that is not missing and the        *)
(* baseline input's when it is; when the current input has no centroid     *)
(* column, every written row has the baseline input's centroid.            *)
CentroidColumns == {"lon_centroid", "lat_centroid"}

C10_CentroidResolution ==
    Written =>
        /\ \A g \in InBoth : \A i \in RowsOf(g) :
              \E br \in FileRows(baseline_csv, g) :
              \E cr \in FileRows(current_csv, g) :
              \A c \in CentroidColumns :
                  LET cv == Field(current_csv, cr, c)
                      bv == Field(baseline_csv, br, c)
                  IN  /\ ~IsNaN(cv) => OutRows[i][c] = cv
                      /\ IsNaN(cv) => OutRows[i][c] = bv
        /\ CentroidColumns \cap current_csv.cols = {} =>
              \A i \in DOMAIN OutRows :
                  LET g == OutRows[i]["gridID"]
                  IN  IF g \in FileKeys(baseline_csv)
                      THEN \E br \in FileRows(baseline_csv, g) :
                              \A c \in CentroidColumns :
                                  OutRows[i][c] = Field(baseline_csv, br, c)
                      ELSE \A c \in CentroidColumns : IsNaN(OutRows[i][c])

\* A written row of a cell both inputs have, whose current lon_centroid is
\* missing and whose current lat_centroid is not: lon from baseline, lat
\* from current.
C10_Witness ==
    /\ Written
    /\ CentroidColumns \subseteq current_csv.cols
    /\ \E g \in InBoth : \E i \in RowsOf(g) :
          \E br \in FileRows(baseline_csv, g) :
          \E cr \in FileRows(current_csv, g) :
              /\ IsNaN(cr["lon_centroid"])
              /\ ~IsNaN(cr["lat_centroid"])
              /\ ~IsNaN(Field(baseline_csv, br, "lon_centroid"))
              /\ ~IsNaN(Field(baseline_csv, br, "lat_centroid"))
              /\ OutRows[i]["lon_centroid"] = br["lon_centroid"]
              /\ OutRows[i]["lat_centroid"] = cr["lat_centroid"]

====
